---- MODULE Spec2Model ----
(***************************************************************************)
(* Bagel payroll: the privacy arithmetic (privacy/mod.rs, privacy/inco.rs, *)
(* privacy/arcium.rs), the PayrollJar instructions (instructions/*.rs),    *)
(* the master-vault program (programs/bagel/src/lib.rs) and the payroll    *)
(* program (programs/payroll/src/lib.rs).                                  *)
(*                                                                         *)
(* The four parts share no account, so a behaviour exercises one of them:  *)
(* `prog` names it and is fixed by Init.                                   *)
(***************************************************************************)
EXTENDS Integers, Sequences, FiniteSets, TLC

VARIABLES prog, now, ret, input, jar, lamports, applied, mempool,
          master_vault, business_entries, employee_entries,
          businesses, employees, tee

vaultVars == <<master_vault, business_entries, employee_entries>>

payVars == <<businesses, employees, tee>>

\* ------------------------------------------------------------------------
\* Bounds of the model
\* ------------------------------------------------------------------------

\* u64::MAX of the model: integers are 28 bits wide instead of 64.
U64_MAX ==
    268435455

\* ------------------------------------------------------------------------
\* Results
\* ------------------------------------------------------------------------

Ok(v) == [ok |-> TRUE, val |-> v]

Err(e) == [ok |-> FALSE, err |-> e]

\* ------------------------------------------------------------------------
\* Integer helpers of the Rust standard library
\* ------------------------------------------------------------------------

U64_BYTES ==
    8

U128_BYTES ==
    16

\* The values of a u8.
BYTE_BASE == 2 ^ 8

\* Largest integer the model represents; a decoded 16-byte value beyond it
\* is represented by U128_MAX (only its exceeding U64_MAX is ever observed).
U128_MAX == 4 * U64_MAX + 3

RECURSIVE to_le_bytes_n(_, _)
to_le_bytes_n(v, n) ==
    IF n = 0 THEN <<>>
    ELSE <<v % BYTE_BASE>> \o to_le_bytes_n(v \div BYTE_BASE, n - 1)

to_be_bytes(v) ==
    LET le == to_le_bytes_n(v, U64_BYTES)
    IN  [i \in 1..U64_BYTES |-> le[U64_BYTES + 1 - i]]

to_le_bytes(v) == to_le_bytes_n(v, U64_BYTES)

to_le_bytes_u128(v) == to_le_bytes_n(v, U128_BYTES)

RECURSIVE from_le_bytes(_)
from_le_bytes(b) ==
    IF b = <<>> THEN 0
    ELSE LET hi == from_le_bytes(Tail(b))
         IN  IF hi > (U128_MAX - Head(b)) \div BYTE_BASE
             THEN U128_MAX
             ELSE Head(b) + BYTE_BASE * hi

saturating_mul(a, b) ==
    IF a = 0 \/ b <= U64_MAX \div a THEN Ok(a * b) ELSE Ok(U64_MAX)

checked_mul(a, b) ==
    IF a = 0 \/ b <= U64_MAX \div a THEN Ok(a * b) ELSE Err("Overflow")

wrapping_add(a, b) == Ok((a + b) % (U64_MAX + 1))

wrapping_sub(a, b) == Ok((a - b) % (U64_MAX + 1))

checked_add(a, b) ==
    IF a <= U64_MAX - b THEN Ok(a + b) ELSE Err("Overflow")

checked_sub(a, b) ==
    IF b <= a THEN Ok(a - b) ELSE Err("Underflow")

RECURSIVE xor_bits(_, _, _)
xor_bits(a, b, n) ==
    IF n = 0 THEN 0
    ELSE (((a % 2) + (b % 2)) % 2) + 2 * xor_bits(a \div 2, b \div 2, n - 1)

xor_byte(a, b) == xor_bits(a, b, 8)

\* ------------------------------------------------------------------------
\* privacy/mod.rs: EncryptedU64
\* ------------------------------------------------------------------------

EncryptedU64_new(plaintext) == [ciphertext |-> to_le_bytes(plaintext)]

EncryptedU64_decrypt(e) ==
    IF Len(e.ciphertext) < U64_BYTES THEN Err("DecryptionFailed")
    ELSE Ok(from_le_bytes(SubSeq(e.ciphertext, 1, U64_BYTES)))

multiply_by_scalar(e, scalar) ==
    LET decrypted == EncryptedU64_decrypt(e)
    IN  IF ~decrypted.ok THEN decrypted
        ELSE LET result == checked_mul(decrypted.val, scalar)
             IN  IF ~result.ok THEN Err("ArithmeticOverflow")
                 ELSE Ok(EncryptedU64_new(result.val))

calculate_accrued_one_second(encrypted_salary_per_second, elapsed_seconds) ==
    multiply_by_scalar(encrypted_salary_per_second, 1)

calculate_accrued(encrypted_salary_per_second, elapsed_seconds) ==
    multiply_by_scalar(encrypted_salary_per_second, elapsed_seconds)

\* The EncryptedU64 methods multiply_by_scalar runs, in order: it decrypts its
\* operand, and encrypts the product when there is one.
multiply_by_scalar_calls(e, scalar) ==
    IF multiply_by_scalar(e, scalar).ok THEN <<"decrypt", "new">> ELSE <<"decrypt">>

decrypt_as_zero(e) == Ok(0)

decrypt_for_transfer(e) == EncryptedU64_decrypt(e)

\* ------------------------------------------------------------------------
\* privacy/arcium.rs: ConfidentialBalance (mock C-SPL)
\* ------------------------------------------------------------------------

Arcium_new(amount) ==
    [ciphertext |-> to_le_bytes(amount), encryption_pubkey |-> <<>>]

Arcium_decrypt(c) ==
    IF Len(c.ciphertext) < U64_BYTES THEN Err("DecryptionFailed")
    ELSE Ok(from_le_bytes(SubSeq(c.ciphertext, 1, U64_BYTES)))

Arcium_add(c, delta) ==
    LET current == Arcium_decrypt(c)
    IN  IF ~current.ok THEN current
        ELSE LET new_amount == checked_add(current.val, delta)
             IN  IF ~new_amount.ok THEN Err("ArithmeticOverflow")
                 ELSE Ok(Arcium_new(new_amount.val))

Arcium_multiply_scalar(c, scalar) ==
    LET decrypted == Arcium_decrypt(c)
    IN  IF ~decrypted.ok THEN decrypted
        ELSE LET result == checked_mul(decrypted.val, scalar)
             IN  IF ~result.ok THEN Err("ArithmeticOverflow")
                 ELSE Ok(Arcium_new(result.val))

Arcium_calculate_accrued_mpc(encrypted_salary_per_second, elapsed_seconds) ==
    Arcium_multiply_scalar(encrypted_salary_per_second, elapsed_seconds)

\* ------------------------------------------------------------------------
\* privacy/inco.rs: Euint128 and ConfidentialBalance (mock Inco)
\* ------------------------------------------------------------------------

\* b"INCO_ENCRYPTED__"
INCO_MASK == <<73, 78, 67, 79, 95, 69, 78, 67, 82, 89, 80, 84, 69, 68, 95, 95>>

Euint128_new(value) ==
    LET value_bytes == to_le_bytes_u128(value)
    IN  [handle |-> [i \in 1..U128_BYTES |-> xor_byte(value_bytes[i], INCO_MASK[i])]]

\* #[derive(Default)]: the all-zero handle.
Euint128_default == [handle |-> [i \in 1..U128_BYTES |-> 0]]

Euint128_decrypt_unmasked(e) == Ok(from_le_bytes(e.handle))

Euint128_decrypt(e) ==
    Ok(from_le_bytes([i \in 1..U128_BYTES |-> xor_byte(e.handle[i], INCO_MASK[i])]))

Inco_new(amount) == [encrypted_amount |-> Euint128_new(amount)]

Inco_decrypt(c) ==
    LET value == Euint128_decrypt(c.encrypted_amount)
    IN  IF value.val > U64_MAX THEN Err("IncoError::Overflow")
        ELSE Ok(value.val)

Inco_add(c, delta) ==
    LET current == Inco_decrypt(c)
    IN  IF ~current.ok THEN current
        ELSE LET new_amount == checked_add(current.val, delta)
             IN  IF ~new_amount.ok THEN Err("IncoError::Overflow")
                 ELSE Ok(Inco_new(new_amount.val))

Inco_sub(c, delta) ==
    LET current == Inco_decrypt(c)
    IN  IF ~current.ok THEN current
        ELSE LET new_amount == checked_sub(current.val, delta)
             IN  IF ~new_amount.ok THEN Err("IncoError::Underflow")
                 ELSE Ok(Inco_new(new_amount.val))

Inco_multiply_scalar(c, scalar) ==
    LET decrypted == Inco_decrypt(c)
    IN  IF ~decrypted.ok THEN decrypted
        ELSE LET result == checked_mul(decrypted.val, scalar)
             IN  IF ~result.ok THEN Err("IncoError::Overflow")
                 ELSE Ok(Inco_new(result.val))

Inco_calculate_accrued_mpc(encrypted_salary, elapsed_seconds) ==
    Inco_multiply_scalar(encrypted_salary, elapsed_seconds)

Inco_decrypt_for_transfer(c) == Inco_decrypt(c)

\* ------------------------------------------------------------------------
\* The privacy arithmetic applied to inputs drawn by Init
\* ------------------------------------------------------------------------

Plaintexts == {0, 1, 2, 1000, 1000000, U64_MAX \div 10, U64_MAX \div 2, U64_MAX}

Scalars == {0, 1, 2, 3, 10, 3600, 500000, U64_MAX}

NoCall == [op |-> "none", err |-> "Ok"]

\* The outcome of a pure call: its error, or the decryption of its value.
Outcome(op, r, decrypted) ==
    IF r.ok
    THEN [op |-> op, err |-> "Ok", value |-> r.val, plain |-> decrypted]
    ELSE [op |-> op, err |-> r.err]

ApplyMultiplyByScalar ==
    /\ prog = "privacy"
    /\ LET r == multiply_by_scalar(EncryptedU64_new(input.plaintext), input.scalar)
       IN  ret' = Outcome("multiply_by_scalar", r, IF r.ok THEN EncryptedU64_decrypt(r.val) ELSE r)
    /\ UNCHANGED <<prog, now, input, jar, lamports, applied, mempool, vaultVars, payVars>>

ApplyCalculateAccrued ==
    /\ prog = "privacy"
    /\ LET r == calculate_accrued(EncryptedU64_new(input.plaintext), input.scalar)
       IN  ret' = Outcome("calculate_accrued", r, IF r.ok THEN decrypt_for_transfer(r.val) ELSE r)
    /\ UNCHANGED <<prog, now, input, jar, lamports, applied, mempool, vaultVars, payVars>>

ApplyArciumCalculateAccrued ==
    /\ prog = "privacy"
    /\ LET r == Arcium_calculate_accrued_mpc(Arcium_new(input.plaintext), input.scalar)
       IN  ret' = Outcome("arcium::calculate_accrued_mpc", r,
                          IF r.ok THEN Arcium_decrypt(r.val) ELSE r)
    /\ UNCHANGED <<prog, now, input, jar, lamports, applied, mempool, vaultVars, payVars>>

ApplyIncoCalculateAccrued ==
    /\ prog = "privacy"
    /\ LET r == Inco_calculate_accrued_mpc(Inco_new(input.plaintext), input.scalar)
       IN  ret' = Outcome("inco::calculate_accrued_mpc", r,
                          IF r.ok THEN Inco_decrypt_for_transfer(r.val) ELSE r)
    /\ UNCHANGED <<prog, now, input, jar, lamports, applied, mempool, vaultVars, payVars>>

\* new followed by decrypt, for each of the encrypted types; Euint128 also
\* for a value beyond u64.
ApplyEncryptDecrypt ==
    /\ prog = "privacy"
    /\ ret' = [op |-> "encrypt_decrypt", err |-> "Ok",
               encrypted_u64 |-> EncryptedU64_decrypt(EncryptedU64_new(input.plaintext)),
               arcium |-> Arcium_decrypt(Arcium_new(input.plaintext)),
               inco |-> Inco_decrypt(Inco_new(input.plaintext)),
               euint128 |-> Euint128_decrypt(Euint128_new(input.plaintext)),
               euint128_wide |->
                   Euint128_decrypt(Euint128_new(input.plaintext + U64_MAX + 1))]
    /\ UNCHANGED <<prog, now, input, jar, lamports, applied, mempool, vaultVars, payVars>>

\* A call of a &mut self method: the balance afterwards is the new one when
\* the call succeeded and the old one when it failed.
Mutated(op, before, r, decrypted) ==
    [op |-> op, err |-> IF r.ok THEN "Ok" ELSE r.err,
     balance |-> IF r.ok THEN r.val ELSE before, plain |-> decrypted]

ApplyArciumAdd ==
    /\ prog = "privacy"
    /\ LET balance == Arcium_new(input.plaintext)
           r == Arcium_add(balance, input.scalar)
       IN  ret' = Mutated("arcium::add", balance, r,
                          Arcium_decrypt(IF r.ok THEN r.val ELSE balance))
    /\ UNCHANGED <<prog, now, input, jar, lamports, applied, mempool, vaultVars, payVars>>

ApplyIncoAdd ==
    /\ prog = "privacy"
    /\ LET balance == Inco_new(input.plaintext)
           r == Inco_add(balance, input.scalar)
       IN  ret' = Mutated("inco::add", balance, r,
                          Inco_decrypt(IF r.ok THEN r.val ELSE balance))
    /\ UNCHANGED <<prog, now, input, jar, lamports, applied, mempool, vaultVars, payVars>>

ApplyIncoSub ==
    /\ prog = "privacy"
    /\ LET balance == Inco_new(input.plaintext)
           r == Inco_sub(balance, input.scalar)
       IN  ret' = Mutated("inco::sub", balance, r,
                          Inco_decrypt(IF r.ok THEN r.val ELSE balance))
    /\ UNCHANGED <<prog, now, input, jar, lamports, applied, mempool, vaultVars, payVars>>

\* Lengths of a ciphertext that is too short to hold a u64.
ShortLengths == {0, 1, U64_BYTES - 1}

\* decrypt applied to a ciphertext cut to n bytes, and to the default handle.
ApplyDecryptMalformed(n) ==
    /\ prog = "privacy"
    /\ LET short == SubSeq(to_le_bytes(input.plaintext), 1, n)
       IN  ret' = [op |-> "decrypt_malformed", err |-> "Ok", len |-> n,
                   encrypted_u64 |-> EncryptedU64_decrypt([ciphertext |-> short]),
                   arcium |-> Arcium_decrypt([ciphertext |-> short,
                                              encryption_pubkey |-> <<>>]),
                   euint128 |-> Euint128_decrypt(Euint128_default),
                   inco |-> Inco_decrypt([encrypted_amount |-> Euint128_default])]
    /\ UNCHANGED <<prog, now, input, jar, lamports, applied, mempool, vaultVars, payVars>>

PrivacyNext ==
    \/ ApplyMultiplyByScalar
    \/ ApplyCalculateAccrued
    \/ ApplyArciumCalculateAccrued
    \/ ApplyIncoCalculateAccrued
    \/ ApplyEncryptDecrypt
    \/ ApplyArciumAdd
    \/ ApplyIncoAdd
    \/ ApplyIncoSub
    \/ \E n \in ShortLengths : ApplyDecryptMalformed(n)

\* ------------------------------------------------------------------------
\* constants.rs
\* ------------------------------------------------------------------------

MAX_SALARY_PER_SECOND ==
    50000000

MIN_WITHDRAW_INTERVAL ==
    60

\* ------------------------------------------------------------------------
\* The clock sysvar: readings are drawn from the instants around the pacing
\* interval, and never go back.
\* ------------------------------------------------------------------------

TimePoints ==
    {0, MIN_WITHDRAW_INTERVAL - 1, MIN_WITHDRAW_INTERVAL, 2 * MIN_WITHDRAW_INTERVAL}

\* i64::MAX of the model.
I64_MAX == U64_MAX \div 2

elapsed_zero(a, b) == Ok(0)

checked_sub_i64(a, b) ==
    IF a - b <= I64_MAX /\ a - b >= -I64_MAX - 1 THEN Ok(a - b) ELSE Err("Overflow")

\* ------------------------------------------------------------------------
\* state/mod.rs: PayrollJar, and the lamports of the three accounts
\* ------------------------------------------------------------------------

\* Rent-exempt minimum of a PayrollJar account.
JarRent ==
    10

\* Lamports the employer starts with.
EmployerFunds ==
    210

\* Lamports the employer of the master-vault program starts with.
OwnerFunds ==
    35

NoJar ==
    [exists |-> FALSE, encrypted_salary_per_second |-> <<>>, last_withdraw |-> 0,
     total_accrued |-> 0, is_active |-> FALSE]

\* Lamports the depositor of the master vault starts with.
DepositorFunds ==
    200

InitLamports ==
    [a \in {"employer", "employee", "jar", "depositor", "master_vault", "withdrawer",
            "stranger"} |->
        IF a = "employer" THEN EmployerFunds
        ELSE IF a = "depositor" THEN DepositorFunds ELSE 0]

\* ------------------------------------------------------------------------
\* instructions/bake_payroll.rs
\* ------------------------------------------------------------------------

SalaryInputs == {0, 2, MAX_SALARY_PER_SECOND, MAX_SALARY_PER_SECOND + 1}

bake_payroll_unchecked(salary_per_second, current_time) ==
    Ok([exists |-> TRUE,
        encrypted_salary_per_second |-> Arcium_new(salary_per_second).ciphertext,
        last_withdraw |-> current_time,
        total_accrued |-> 0,
        is_active |-> TRUE])

bake_payroll(salary_per_second, current_time) ==
    IF ~(salary_per_second <= MAX_SALARY_PER_SECOND) THEN Err("SalaryTooHigh")
    ELSE Ok([exists |-> TRUE,
             encrypted_salary_per_second |-> Arcium_new(salary_per_second).ciphertext,
             last_withdraw |-> current_time,
             total_accrued |-> 0,
             is_active |-> TRUE])

BakePayroll(salary_per_second) ==
    /\ prog = "jar"
    /\ ~jar.exists
    /\ lamports["employer"] >= JarRent
    /\ LET r == bake_payroll(salary_per_second, now)
       IN  IF r.ok
           THEN /\ jar' = r.val
                /\ lamports' = [lamports EXCEPT !["employer"] = @ - JarRent,
                                                !["jar"] = JarRent]
                /\ ret' = [op |-> "bake_payroll", err |-> "Ok",
                           salary_per_second |-> salary_per_second]
           ELSE /\ UNCHANGED <<jar, lamports>>
                /\ ret' = [op |-> "bake_payroll", err |-> r.err,
                           salary_per_second |-> salary_per_second]
    /\ UNCHANGED <<prog, now, input, applied, mempool, vaultVars, payVars>>

\* ------------------------------------------------------------------------
\* instructions/update_salary.rs
\* ------------------------------------------------------------------------

\* As update_salary, also settling the jar: total_accrued is cleared.
update_salary_settling(j, new_salary_per_second) ==
    IF ~(new_salary_per_second <= MAX_SALARY_PER_SECOND) THEN Err("SalaryTooHigh")
    ELSE Ok([j EXCEPT !.encrypted_salary_per_second = to_le_bytes(new_salary_per_second),
                      !.total_accrued = 0])

update_salary(j, new_salary_per_second) ==
    IF ~(new_salary_per_second <= MAX_SALARY_PER_SECOND) THEN Err("SalaryTooHigh")
    ELSE Ok([j EXCEPT !.encrypted_salary_per_second = to_le_bytes(new_salary_per_second)])

UpdateSalary(new_salary_per_second) ==
    /\ prog = "jar"
    /\ jar.exists
    /\ LET r == update_salary(jar, new_salary_per_second)
       IN  /\ jar' = IF r.ok THEN r.val ELSE jar
           /\ ret' = [op |-> "update_salary", err |-> IF r.ok THEN "Ok" ELSE r.err,
                      salary_per_second |-> new_salary_per_second]
    /\ UNCHANGED <<prog, now, input, lamports, applied, mempool, vaultVars, payVars>>

\* ------------------------------------------------------------------------
\* instructions/deposit_dough.rs
\* ------------------------------------------------------------------------

DepositInputs == {0, 100, 105}

\* As deposit_dough, with the liquid part computed as a tenth of the amount.
deposit_dough_tenth(j, amount) ==
    IF ~(amount > 0) THEN Err("InvalidAmount")
    ELSE LET yield_amount  == (amount * 90) \div 100
             liquid_amount == amount \div 10
             total_deposited == checked_add(liquid_amount, yield_amount)
         IN  IF ~total_deposited.ok THEN Err("ArithmeticOverflow")
             ELSE LET total == checked_add(j.total_accrued, total_deposited.val)
                  IN  IF ~total.ok THEN Err("ArithmeticOverflow")
                      ELSE Ok([jar |-> [j EXCEPT !.total_accrued = total.val],
                               yield_amount |-> yield_amount,
                               liquid_amount |-> liquid_amount])

\* As deposit_dough, with only the liquid part added to total_accrued.
deposit_dough_liquid_tracked(j, amount) ==
    IF ~(amount > 0) THEN Err("InvalidAmount")
    ELSE LET yield_amount  == (amount * 90) \div 100
             liquid_amount == amount - yield_amount
             total == checked_add(j.total_accrued, liquid_amount)
         IN  IF ~total.ok THEN Err("ArithmeticOverflow")
             ELSE Ok([jar |-> [j EXCEPT !.total_accrued = total.val],
                      yield_amount |-> yield_amount,
                      liquid_amount |-> liquid_amount])

deposit_dough(j, amount) ==
    IF ~(amount > 0) THEN Err("InvalidAmount")
    ELSE LET yield_amount  == (amount * 90) \div 100
             liquid_amount == amount - yield_amount
             total_deposited == checked_add(liquid_amount, yield_amount)
         IN  IF ~total_deposited.ok THEN Err("ArithmeticOverflow")
             ELSE LET total == checked_add(j.total_accrued, total_deposited.val)
                  IN  IF ~total.ok THEN Err("ArithmeticOverflow")
                      ELSE Ok([jar |-> [j EXCEPT !.total_accrued = total.val],
                               yield_amount |-> yield_amount,
                               liquid_amount |-> liquid_amount])

DepositDough(amount) ==
    /\ prog = "jar"
    /\ jar.exists
    /\ LET r == deposit_dough(jar, amount)
       IN  IF r.ok /\ lamports["employer"] >= amount
           THEN /\ jar' = r.val.jar
                /\ lamports' = [lamports EXCEPT
                       !["employer"] = @ - r.val.yield_amount - r.val.liquid_amount,
                       !["jar"] = @ + r.val.yield_amount + r.val.liquid_amount]
                /\ ret' = [op |-> "deposit_dough", err |-> "Ok", amount |-> amount,
                           yield_amount |-> r.val.yield_amount,
                           liquid_amount |-> r.val.liquid_amount]
           ELSE /\ UNCHANGED <<jar, lamports>>
                /\ ret' = [op |-> "deposit_dough", amount |-> amount,
                           err |-> IF amount > 0 /\ lamports["employer"] < amount
                                   THEN "SystemTransferFailed" ELSE r.err]
    /\ UNCHANGED <<prog, now, input, applied, mempool, vaultVars, payVars>>

\* ------------------------------------------------------------------------
\* instructions/get_dough.rs
\* ------------------------------------------------------------------------

get_dough(j, current_time) ==
    LET time_elapsed == checked_sub_i64(current_time, j.last_withdraw)
    IN  IF ~time_elapsed.ok THEN Err("InvalidTimestamp")
        ELSE IF ~(time_elapsed.val >= MIN_WITHDRAW_INTERVAL) THEN Err("WithdrawTooSoon")
        ELSE LET encrypted_salary == [ciphertext |-> j.encrypted_salary_per_second]
                 encrypted_accrued == calculate_accrued(encrypted_salary, time_elapsed.val)
             IN  IF ~encrypted_accrued.ok THEN encrypted_accrued
                 ELSE LET accrued == decrypt_for_transfer(encrypted_accrued.val)
                      IN  IF ~accrued.ok THEN accrued
                          ELSE IF ~(accrued.val > 0) THEN Err("NoAccruedDough")
                          ELSE IF ~(accrued.val <= j.total_accrued)
                               THEN Err("InsufficientFunds")
                          ELSE Ok([jar |-> [j EXCEPT
                                       !.total_accrued = j.total_accrued - accrued.val,
                                       !.last_withdraw = current_time],
                                   accrued |-> accrued.val])

\* state/mod.rs: the DoughDelivered record a settlement of `accrued` emits.
emit_DoughDelivered_amount(employee, bagel_jar, accrued, timestamp) ==
    [name |-> "DoughDelivered", employee |-> employee, bagel_jar |-> bagel_jar,
     amount |-> accrued, timestamp |-> timestamp]

emit_DoughDelivered(employee, bagel_jar, accrued, timestamp) ==
    [name |-> "DoughDelivered", employee |-> employee, bagel_jar |-> bagel_jar,
     timestamp |-> timestamp]

\* The EncryptedU64 methods a call of get_dough runs, in order.
get_dough_calls(j, current_time) ==
    LET time_elapsed == checked_sub_i64(current_time, j.last_withdraw)
    IN  IF ~time_elapsed.ok \/ ~(time_elapsed.val >= MIN_WITHDRAW_INTERVAL) THEN <<>>
        ELSE LET encrypted_salary == [ciphertext |-> j.encrypted_salary_per_second]
                 encrypted_accrued == calculate_accrued(encrypted_salary, time_elapsed.val)
             IN  multiply_by_scalar_calls(encrypted_salary, time_elapsed.val)
                     \o (IF encrypted_accrued.ok THEN <<"decrypt">> ELSE <<>>)

GetDough ==
    /\ prog \in {"jar", "regressed"}
    /\ jar.exists
    /\ LET r == get_dough(jar, now)
       IN  IF r.ok
           THEN /\ jar' = r.val.jar
                /\ lamports' = [lamports EXCEPT !["jar"] = @ - r.val.accrued,
                                                !["employee"] = @ + r.val.accrued]
                /\ ret' = [op |-> "get_dough", err |-> "Ok",
                           calls |-> get_dough_calls(jar, now),
                           event |-> emit_DoughDelivered("employee", "jar",
                                                         r.val.accrued, now)]
           ELSE /\ UNCHANGED <<jar, lamports>>
                /\ ret' = [op |-> "get_dough", err |-> r.err,
                           calls |-> get_dough_calls(jar, now)]
    /\ UNCHANGED <<prog, now, input, applied, mempool, vaultVars, payVars>>

\* ------------------------------------------------------------------------
\* instructions/finalize_get_dough_from_mpc_callback.rs
\* ------------------------------------------------------------------------

DOUGH_OUT_SIZE ==
    32

\* Computation accounts of the Arcium program.
Computations == {1, 2}

\* Amounts a computation result may carry.
MpcAmounts == {0, 60, 1000}

\* A signed computation output: who signed it, for which computation account,
\* and the 32 result bytes.
ClusterOutputs ==
    [signer : {"cluster"}, computation : Computations,
     bytes : {to_le_bytes_n(a, DOUGH_OUT_SIZE) : a \in MpcAmounts}]

\* What a party without the cluster's key can produce.
ForgedOutputs ==
    [signer : {"forger"}, computation : {1},
     bytes : {to_le_bytes_n(MIN_WITHDRAW_INTERVAL, DOUGH_OUT_SIZE)}]

SignedOutputs == ClusterOutputs \cup ForgedOutputs

verify_output_unchecked(output, cluster_account, computation_account) ==
    Ok([bytes |-> output.bytes])

\* The signature check of the SDK, as the handler calls it: the output must be
\* signed by the cluster of cluster_account for computation_account.
verify_output(output, cluster_account, computation_account) ==
    IF output.signer = cluster_account /\ output.computation = computation_account
    THEN Ok([bytes |-> output.bytes])
    ELSE Err("SignatureVerificationFailed")

MagicPrograms == {"MAGICBLOCK_PROGRAM_ID", "other"}

finalize_get_dough_from_mpc_callback(j, output, computation, magic, current_time) ==
    LET computation_account == computation
        magic_program == magic
        decoded == verify_output(output, "cluster", computation_account)
    IN  IF ~decoded.ok THEN Err("ComputationFailed")
        ELSE LET encrypted_accrued == [ciphertext |-> decoded.val.bytes]
                 accrued == decrypt_for_transfer(encrypted_accrued)
             IN  IF ~accrued.ok THEN accrued
                 ELSE IF ~(accrued.val > 0) THEN Err("NoAccruedDough")
                 ELSE IF ~(accrued.val <= j.total_accrued) THEN Err("InsufficientFunds")
                 ELSE IF magic_program # "MAGICBLOCK_PROGRAM_ID" THEN Err("InvalidAmount")
                 ELSE Ok([jar |-> [j EXCEPT
                              !.total_accrued = j.total_accrued - accrued.val,
                              !.last_withdraw = current_time],
                          accrued |-> accrued.val])

FinalizeGetDoughFromMpcCallback(output, computation_account, magic_program) ==
    /\ prog = "jar"
    /\ jar.exists
    /\ LET r == finalize_get_dough_from_mpc_callback(
                    jar, output, computation_account, magic_program, now)
           call == [op |-> "finalize_get_dough_from_mpc_callback",
                    output |-> output, computation_account |-> computation_account]
       IN  IF r.ok
           THEN /\ jar' = r.val.jar
                /\ lamports' = [lamports EXCEPT !["jar"] = @ - r.val.accrued,
                                                !["employee"] = @ + r.val.accrued]
                /\ applied' = applied \cup {output}
                /\ ret' = call @@ [err |-> "Ok",
                                   event |-> emit_DoughDelivered("employee", "jar",
                                                                 r.val.accrued, now)]
           ELSE /\ UNCHANGED <<jar, lamports, applied>>
                /\ ret' = call @@ [err |-> r.err]
    /\ UNCHANGED <<prog, now, input, mempool, vaultVars, payVars>>

\* ------------------------------------------------------------------------
\* instructions/queue_get_dough_mpc.rs, arcium_callback_builder.rs
\* ------------------------------------------------------------------------

ARCIUM_CLUSTER_OFFSET ==
    1078779259

\* Bytes of the stored ciphertext the handler slices off as the encrypted input.
ENCRYPTED_INPUT_SIZE ==
    32

ElapsedInputs == {0, MIN_WITHDRAW_INTERVAL}

\* Requests the cluster holds at the same time.
MaxOutstanding ==
    2

FinalizeCallbackAccounts ==
    [employee |-> "employee", employer |-> "employer", payroll_jar |-> "jar",
     magic_context |-> "default", magic_program |-> "MAGICBLOCK_PROGRAM_ID",
     system_program |-> "system_program"]

build_finalize_callback_ix(program_id, accounts) ==
    [program_id |-> program_id,
     accounts |-> <<accounts.employee, accounts.employer, accounts.payroll_jar,
                    accounts.magic_context, accounts.magic_program,
                    accounts.system_program>>,
     data |-> <<>>]

\* The handler builds anchor_cb_ix and then passes an empty list of callback
\* instructions to queue_computation.  Slicing [0..32] of a shorter ciphertext
\* panics, which aborts the instruction.
queue_get_dough_mpc(j, elapsed_seconds) ==
    IF ~j.is_active THEN Err("InvalidState")
    ELSE IF Len(j.encrypted_salary_per_second) < ENCRYPTED_INPUT_SIZE
         THEN Err("ProgramFailedToComplete")
    ELSE LET encrypted_bytes == SubSeq(j.encrypted_salary_per_second, 1,
                                       ENCRYPTED_INPUT_SIZE)
             anchor_cb_ix == build_finalize_callback_ix("bagel", FinalizeCallbackAccounts)
             callback_instructions == <<>>
         IN  Ok([computation_offset |-> ARCIUM_CLUSTER_OFFSET,
                 args |-> <<encrypted_bytes, elapsed_seconds>>,
                 callback_instructions |-> callback_instructions])

\* queue_computation hands the request to the cluster, which holds it until
\* the computation has run.
QueueGetDoughMpc(elapsed_seconds) ==
    /\ prog \in {"jar", "queue"}
    /\ jar.exists
    /\ Len(mempool) < MaxOutstanding
    /\ LET r == queue_get_dough_mpc(jar, elapsed_seconds)
           call == [op |-> "queue_get_dough_mpc", elapsed_seconds |-> elapsed_seconds]
       IN  IF r.ok
           THEN /\ mempool' = Append(mempool, r.val)
                /\ ret' = call @@ [err |-> "Ok"]
           ELSE /\ UNCHANGED mempool
                /\ ret' = call @@ [err |-> r.err]
    /\ UNCHANGED <<prog, now, input, jar, lamports, applied, vaultVars, payVars>>

\* ------------------------------------------------------------------------
\* instructions/close_jar.rs
\* ------------------------------------------------------------------------

CloseJar ==
    /\ prog = "jar"
    /\ jar.exists
    /\ jar' = NoJar
    /\ lamports' = [lamports EXCEPT !["employer"] = @ + lamports["jar"], !["jar"] = 0]
    /\ ret' = [op |-> "close_jar", err |-> "Ok"]
    /\ UNCHANGED <<prog, now, input, applied, mempool, vaultVars, payVars>>

\* ------------------------------------------------------------------------
\* The clock advances
\* ------------------------------------------------------------------------

Tick(t) ==
    /\ prog \notin {"privacy", "queue", "regressed"}
    /\ t > now
    /\ now' = t
    /\ ret' = [op |-> "tick", err |-> "Ok"]
    /\ UNCHANGED <<prog, input, jar, lamports, applied, mempool, vaultVars, payVars>>

\* ------------------------------------------------------------------------
\* lib.rs (bagel): program-derived addresses.  An address is the list of
\* seeds it is derived from (the hash is taken to be collision free).
\* The Euint128 fields of the entries are handles into Inco Lightning, whose
\* state is not this program's; the entries are modelled without them, except
\* for encrypted_employee_id, which stands for the ciphertext it was made from.
\* ------------------------------------------------------------------------

MASTER_VAULT_SEED == "master_vault"

BUSINESS_ENTRY_SEED == "entry"

EMPLOYEE_ENTRY_SEED == "employee"

MasterVaultKey == <<MASTER_VAULT_SEED>>

BusinessEntrySeeds(master_vault_key, index) ==
    <<BUSINESS_ENTRY_SEED, master_vault_key, to_le_bytes(index)>>

EmployeeEntrySeeds_no_index(business_entry_key, index) ==
    <<EMPLOYEE_ENTRY_SEED, business_entry_key>>

EmployeeEntrySeeds(business_entry_key, index) ==
    <<EMPLOYEE_ENTRY_SEED, business_entry_key, to_le_bytes(index)>>

\* Rent-exempt minimum of the MasterVault account.
VaultRent ==
    10

\* Rent-exempt minimum of a business or employee entry, paid by the employer
\* that creates it.
EntryRent ==
    10

NoVault ==
    [exists |-> FALSE, total_balance |-> 0, next_business_index |-> 0,
     is_active |-> FALSE, use_confidential_tokens |-> FALSE,
     confidential_mint |-> "default"]

Ciphertexts == {<<>>, <<1>>}

\* ------------------------------------------------------------------------
\* lib.rs (bagel): initialize_vault, configure_confidential_mint
\* ------------------------------------------------------------------------

InitializeVault ==
    /\ prog = "vault"
    /\ ~master_vault.exists
    /\ master_vault' = [exists |-> TRUE, total_balance |-> 0, next_business_index |-> 0,
                        is_active |-> TRUE, use_confidential_tokens |-> FALSE,
                        confidential_mint |-> "default"]
    /\ lamports' = [lamports EXCEPT !["master_vault"] = VaultRent]
    /\ ret' = [op |-> "initialize_vault", err |-> "Ok"]
    /\ UNCHANGED <<prog, now, input, jar, applied, mempool, business_entries,
                   employee_entries, payVars>>

\* The two configurations an authority switches between.
MintConfigs == {<<"default", FALSE>>, <<"mint", TRUE>>}

ConfigureConfidentialMint(mint, enable) ==
    /\ prog = "vault"
    /\ master_vault.exists
    /\ master_vault' = [master_vault EXCEPT !.confidential_mint = mint,
                                            !.use_confidential_tokens = enable]
    /\ ret' = [op |-> "configure_confidential_mint", err |-> "Ok"]
    /\ UNCHANGED <<prog, now, input, jar, lamports, applied, mempool,
                   business_entries, employee_entries, payVars>>

\* ------------------------------------------------------------------------
\* lib.rs (bagel): migrate_vault.  data_len is the length of the account's
\* data; a vault created by initialize_vault has MasterVault::LEN bytes.
\* ------------------------------------------------------------------------

MasterVault_LEN == 8 + 32 + 8 + 16 + 16 + 8 + 1 + 1 + 32 + 1 + 31

\* The length from which migrate_vault takes a vault as already migrated.
MIGRATED_LEN ==
    162

migrate_vault(v, data_len) ==
    IF data_len < 40 THEN Err("InvalidState")
    ELSE IF data_len >= MIGRATED_LEN THEN Ok(v)
    ELSE Ok([v EXCEPT !.confidential_mint = "default",
                      !.use_confidential_tokens = FALSE])

MigrateVault ==
    /\ prog = "vault"
    /\ master_vault.exists
    /\ LET r == migrate_vault(master_vault, MasterVault_LEN)
       IN  /\ master_vault' = IF r.ok THEN r.val ELSE master_vault
           /\ ret' = [op |-> "migrate_vault", err |-> IF r.ok THEN "Ok" ELSE r.err]
    /\ UNCHANGED <<prog, now, input, jar, lamports, applied, mempool,
                   business_entries, employee_entries, payVars>>

ConfidentialMode(v) == v.use_confidential_tokens /\ v.confidential_mint # "default"

\* ------------------------------------------------------------------------
\* lib.rs (bagel): register_business
\* ------------------------------------------------------------------------

register_business_no_increment(v, encrypted_employer_id) ==
    IF encrypted_employer_id = <<>> THEN Err("InvalidCiphertext")
    ELSE Ok([vault |-> v,
             address |-> BusinessEntrySeeds(MasterVaultKey, v.next_business_index + 1),
             entry |-> [master_vault |-> MasterVaultKey,
                        entry_index |-> v.next_business_index + 1,
                        next_employee_index |-> 0,
                        is_active |-> TRUE]])

register_business(v, encrypted_employer_id) ==
    IF encrypted_employer_id = <<>> THEN Err("InvalidCiphertext")
    ELSE LET entry_index == v.next_business_index
         IN  Ok([vault |-> [v EXCEPT !.next_business_index = v.next_business_index + 1],
                 address |-> BusinessEntrySeeds(MasterVaultKey, v.next_business_index),
                 entry |-> [master_vault |-> MasterVaultKey,
                            entry_index |-> entry_index,
                            next_employee_index |-> 0,
                            is_active |-> TRUE]])

\* As RegisterBusiness, except that a rejected call keeps the index it read.
RegisterBusiness_index_consumed(encrypted_employer_id) ==
    /\ prog = "vault"
    /\ master_vault.exists
    /\ lamports["employer"] >= EntryRent
    /\ LET r == register_business(master_vault, encrypted_employer_id)
       IN  IF r.ok /\ r.val.address \notin DOMAIN business_entries
           THEN /\ master_vault' = r.val.vault
                /\ business_entries' = business_entries @@ (r.val.address :> r.val.entry)
                /\ lamports' = [lamports EXCEPT !["employer"] = @ - EntryRent]
                /\ ret' = [op |-> "register_business", err |-> "Ok",
                           address |-> r.val.address]
           ELSE /\ master_vault' = [master_vault EXCEPT !.next_business_index = @ + 1]
                /\ UNCHANGED <<business_entries, lamports>>
                /\ ret' = [op |-> "register_business",
                           err |-> IF r.ok THEN "AccountInUse" ELSE r.err]
    /\ UNCHANGED <<prog, now, input, jar, applied, mempool, employee_entries, payVars>>

RegisterBusiness(encrypted_employer_id) ==
    /\ prog = "vault"
    /\ master_vault.exists
    /\ lamports["employer"] >= EntryRent
    /\ LET r == register_business(master_vault, encrypted_employer_id)
       IN  IF r.ok /\ r.val.address \notin DOMAIN business_entries
           THEN /\ master_vault' = r.val.vault
                /\ business_entries' = business_entries @@ (r.val.address :> r.val.entry)
                /\ lamports' = [lamports EXCEPT !["employer"] = @ - EntryRent]
                /\ ret' = [op |-> "register_business", err |-> "Ok",
                           address |-> r.val.address]
           ELSE /\ UNCHANGED <<master_vault, business_entries, lamports>>
                /\ ret' = [op |-> "register_business",
                           err |-> IF r.ok THEN "AccountInUse" ELSE r.err]
    /\ UNCHANGED <<prog, now, input, jar, applied, mempool, employee_entries, payVars>>

\* ------------------------------------------------------------------------
\* lib.rs (bagel): add_employee
\* ------------------------------------------------------------------------

add_employee(business_key, business, employee_id, encrypted_salary, current_time) ==
    IF employee_id = <<>> THEN Err("InvalidCiphertext")
    ELSE IF encrypted_salary = <<>> THEN Err("InvalidCiphertext")
    ELSE LET employee_index == business.next_employee_index
         IN  Ok([business |-> [business EXCEPT
                                  !.next_employee_index = business.next_employee_index + 1],
                 address |-> EmployeeEntrySeeds(business_key, business.next_employee_index),
                 employee |-> [business_entry |-> business_key,
                               employee_index |-> employee_index,
                               encrypted_employee_id |-> employee_id,
                               last_action |-> current_time,
                               is_active |-> TRUE]])

AddEmployee(business_key, encrypted_employee_id, encrypted_salary) ==
    /\ prog = "vault"
    /\ master_vault.exists
    /\ business_key \in DOMAIN business_entries
    /\ lamports["employer"] >= EntryRent
    /\ LET r == add_employee(business_key, business_entries[business_key],
                             encrypted_employee_id, encrypted_salary, now)
       IN  IF r.ok /\ r.val.address \notin DOMAIN employee_entries
           THEN /\ business_entries' =
                       [business_entries EXCEPT ![business_key] = r.val.business]
                /\ employee_entries' = employee_entries @@ (r.val.address :> r.val.employee)
                /\ lamports' = [lamports EXCEPT !["employer"] = @ - EntryRent]
                /\ ret' = [op |-> "add_employee", err |-> "Ok", address |-> r.val.address]
           ELSE /\ UNCHANGED <<business_entries, employee_entries, lamports>>
                /\ ret' = [op |-> "add_employee",
                           err |-> IF r.ok THEN "AccountInUse" ELSE r.err]
    /\ UNCHANGED <<prog, now, input, jar, applied, mempool, master_vault, payVars>>

\* ------------------------------------------------------------------------
\* lib.rs (bagel): deposit.  In confidential mode the funds move in the Inco
\* token program, whose ledger is not part of this program's state.
\* ------------------------------------------------------------------------

VaultDeposits == {0, 100}

VaultWithdrawals == {0, 100, 150}

\* As deposit, without the update of total_balance.
deposit_untracked(v, entry, amount, encrypted_amount) ==
    IF ~(amount > 0) THEN Err("InvalidAmount")
    ELSE IF encrypted_amount = <<>> THEN Err("InvalidCiphertext")
    ELSE IF ConfidentialMode(v)
         THEN Ok([vault |-> v, lamports |-> 0, entry |-> entry])
    ELSE Ok([vault |-> v, lamports |-> amount, entry |-> entry])

deposit(v, entry, amount, encrypted_amount) ==
    IF ~(amount > 0) THEN Err("InvalidAmount")
    ELSE IF encrypted_amount = <<>> THEN Err("InvalidCiphertext")
    ELSE IF ConfidentialMode(v)
         THEN Ok([vault |-> v, lamports |-> 0, entry |-> entry])
    ELSE LET total == checked_add(v.total_balance, amount)
         IN  IF ~total.ok THEN Err("Overflow")
             ELSE Ok([vault |-> [v EXCEPT !.total_balance = total.val],
                      lamports |-> amount, entry |-> entry])

Deposit(business_key, amount, encrypted_amount) ==
    /\ prog = "vault"
    /\ master_vault.exists
    /\ business_key \in DOMAIN business_entries
    /\ LET r == deposit(master_vault, business_entries[business_key], amount,
                        encrypted_amount)
       IN  IF r.ok /\ lamports["depositor"] >= r.val.lamports
           THEN /\ master_vault' = r.val.vault
                /\ business_entries' =
                       [business_entries EXCEPT ![business_key] = r.val.entry]
                /\ lamports' = [lamports EXCEPT !["depositor"] = @ - r.val.lamports,
                                                !["master_vault"] = @ + r.val.lamports]
                /\ ret' = [op |-> "deposit", err |-> "Ok", amount |-> amount]
           ELSE /\ UNCHANGED <<master_vault, business_entries, lamports>>
                /\ ret' = [op |-> "deposit", amount |-> amount,
                           err |-> IF r.ok THEN "SystemTransferFailed" ELSE r.err]
    /\ UNCHANGED <<prog, now, input, jar, applied, mempool, employee_entries, payVars>>

\* ------------------------------------------------------------------------
\* lib.rs (bagel): request_withdrawal
\* ------------------------------------------------------------------------

saturating_sub(a, b) == IF b <= a THEN a - b ELSE 0

request_withdrawal(v, vault_lamports, employee, amount, current_time) ==
    IF ~(amount > 0) THEN Err("NoAccruedDough")
    ELSE IF ~employee.is_active THEN Err("PayrollInactive")
    ELSE LET time_elapsed == checked_sub_i64(current_time, employee.last_action)
         IN  IF ~time_elapsed.ok THEN Err("InvalidTimestamp")
             ELSE IF ~(time_elapsed.val >= MIN_WITHDRAW_INTERVAL)
                  THEN Err("WithdrawTooSoon")
             ELSE IF ~(amount <= v.total_balance) THEN Err("InsufficientFunds")
             ELSE IF ~(saturating_sub(vault_lamports, amount) >= VaultRent)
                  THEN Err("InsufficientFunds")
             ELSE LET paid == [employee EXCEPT !.last_action = current_time]
                  IN  IF ConfidentialMode(v)
                      THEN Ok([vault |-> v, lamports |-> 0, employee |-> paid])
                      ELSE Ok([vault |-> [v EXCEPT !.total_balance = @ - amount],
                               lamports |-> amount, employee |-> paid])

\* The account constraints of RequestWithdrawal: both entries sit at the
\* addresses derived from the indices they store.
RequestWithdrawalAccounts(business_key, employee_key) ==
    /\ business_key \in DOMAIN business_entries
    /\ employee_key \in DOMAIN employee_entries
    /\ business_key =
           BusinessEntrySeeds(MasterVaultKey, business_entries[business_key].entry_index)
    /\ employee_key =
           EmployeeEntrySeeds(business_key, employee_entries[employee_key].employee_index)

\* The WithdrawalProcessed record a withdrawal of `amount` emits.
emit_WithdrawalProcessed(business, employee, amount, timestamp, use_shadowwire) ==
    [name |-> "WithdrawalProcessed", business_index |-> business.entry_index,
     employee_index |-> employee.employee_index, timestamp |-> timestamp,
     shadowwire_enabled |-> use_shadowwire]

\* Wallets that may sign a withdrawal: the employee's and another one.
Signers == {"withdrawer", "stranger"}

RequestWithdrawal(business_key, employee_key, amount, use_shadowwire, withdrawer) ==
    /\ prog \in {"vault", "regressed"}
    /\ master_vault.exists
    /\ business_key \in DOMAIN business_entries
    /\ employee_key \in DOMAIN employee_entries
    /\ LET call == [op |-> "request_withdrawal", employee |-> employee_key,
                    amount |-> amount, withdrawer |-> withdrawer]
       IN  IF ~RequestWithdrawalAccounts(business_key, employee_key)
           THEN /\ UNCHANGED <<master_vault, employee_entries, lamports>>
                /\ ret' = call @@ [err |-> "ConstraintSeeds"]
           ELSE LET r == request_withdrawal(master_vault, lamports["master_vault"],
                                            employee_entries[employee_key], amount, now)
                IN  IF r.ok
                    THEN /\ master_vault' = r.val.vault
                         /\ employee_entries' =
                                [employee_entries EXCEPT ![employee_key] = r.val.employee]
                         /\ lamports' = [lamports EXCEPT
                                            !["master_vault"] = @ - r.val.lamports,
                                            ![withdrawer] = @ + r.val.lamports]
                         /\ ret' = call @@
                                [err |-> "Ok",
                                 event |-> emit_WithdrawalProcessed(
                                               business_entries[business_key],
                                               employee_entries[employee_key],
                                               amount, now, use_shadowwire)]
                    ELSE /\ UNCHANGED <<master_vault, employee_entries, lamports>>
                         /\ ret' = call @@ [err |-> r.err]
    /\ UNCHANGED <<prog, now, input, jar, applied, mempool, business_entries, payVars>>

VaultNext ==
    \/ InitializeVault
    \/ MigrateVault
    \/ \E c \in MintConfigs : ConfigureConfidentialMint(c[1], c[2])
    \/ \E c \in Ciphertexts : RegisterBusiness(c)
    \/ \E b \in DOMAIN business_entries, c1, c2 \in Ciphertexts : AddEmployee(b, c1, c2)
    \/ \E b \in DOMAIN business_entries, a \in VaultDeposits, c \in Ciphertexts :
           Deposit(b, a, c)
    \/ \E b \in DOMAIN business_entries, e \in DOMAIN employee_entries,
          a \in VaultWithdrawals, s \in BOOLEAN, w \in Signers :
           RequestWithdrawal(b, e, a, s, w)

\* ------------------------------------------------------------------------
\* lib.rs (payroll): addresses and accounts.  `tee` is the set of employee
\* accounts the delegation program currently holds for the rollup.
\* ------------------------------------------------------------------------

BUSINESS_SEED == "business"

VAULT_SEED == "vault"

EMPLOYEE_SEED == "employee"

Owners == {"owner1", "owner2"}

BusinessSeeds(owner) == <<BUSINESS_SEED, owner>>

VaultSeeds(business_key) == <<VAULT_SEED, business_key>>

EmployeeSeeds(business_key, index) ==
    <<EMPLOYEE_SEED, business_key, to_le_bytes(index)>>

EncryptedHandle_default == [handle |-> [i \in 1..32 |-> 0]]

to_handle_bytes(data) == [i \in 1..32 |-> IF i <= Len(data) THEN data[i] ELSE 0]

\* ------------------------------------------------------------------------
\* lib.rs (payroll): register_business, init_vault, deposit
\* ------------------------------------------------------------------------

PayrollRegisterBusiness(owner) ==
    /\ prog = "payroll"
    /\ BusinessSeeds(owner) \notin DOMAIN businesses
    /\ lamports["employer"] >= EntryRent
    /\ businesses' = businesses @@
           (BusinessSeeds(owner) :> [owner |-> owner, vault |-> "default",
                                     next_employee_index |-> 0, is_active |-> TRUE])
    /\ lamports' = [lamports EXCEPT !["employer"] = @ - EntryRent]
    /\ ret' = [op |-> "payroll::register_business", err |-> "Ok"]
    /\ UNCHANGED <<prog, now, input, jar, applied, mempool, vaultVars, employees, tee>>

PayrollInitVault(business_key) ==
    /\ prog = "payroll"
    /\ business_key \in DOMAIN businesses
    /\ businesses[business_key].vault = "default"
    /\ lamports["employer"] >= EntryRent
    /\ businesses' = [businesses EXCEPT ![business_key].vault = VaultSeeds(business_key)]
    /\ lamports' = [lamports EXCEPT !["employer"] = @ - EntryRent]
    /\ ret' = [op |-> "payroll::init_vault", err |-> "Ok"]
    /\ UNCHANGED <<prog, now, input, jar, applied, mempool, vaultVars, employees, tee>>

PayrollDeposit(business_key, encrypted_amount) ==
    /\ prog = "payroll"
    /\ business_key \in DOMAIN businesses
    /\ businesses[business_key].vault # "default"
    /\ ret' = IF encrypted_amount = <<>>
              THEN [op |-> "payroll::deposit", err |-> "InvalidAmount"]
              ELSE [op |-> "payroll::deposit", err |-> "Ok", cpis |-> <<"transfer">>]
    /\ UNCHANGED <<prog, now, input, jar, lamports, applied, mempool, vaultVars, payVars>>

\* ------------------------------------------------------------------------
\* lib.rs (payroll): add_employee
\* ------------------------------------------------------------------------

payroll_add_employee(business_key, business, employee_id, salary_rate, current_time) ==
    IF employee_id = <<>> THEN Err("InvalidCiphertext")
    ELSE IF salary_rate = <<>> THEN Err("InvalidCiphertext")
    ELSE LET employee_index == business.next_employee_index
         IN  Ok([business |-> [business EXCEPT
                                  !.next_employee_index = business.next_employee_index + 1],
                 address |-> EmployeeSeeds(business_key, business.next_employee_index),
                 employee |-> [business |-> business_key,
                               employee_index |-> employee_index,
                               last_accrual_time |-> current_time,
                               is_active |-> TRUE,
                               is_delegated |-> FALSE,
                               encrypted_salary_rate |->
                                   [handle |-> to_handle_bytes(salary_rate)],
                               encrypted_accrued |-> EncryptedHandle_default]])

PayrollAddEmployee(business_key, encrypted_employee_id, encrypted_salary_rate) ==
    /\ prog = "payroll"
    /\ business_key \in DOMAIN businesses
    /\ lamports["employer"] >= EntryRent
    /\ LET r == payroll_add_employee(business_key, businesses[business_key],
                                     encrypted_employee_id, encrypted_salary_rate, now)
       IN  IF r.ok /\ r.val.address \notin DOMAIN employees
           THEN /\ businesses' = [businesses EXCEPT ![business_key] = r.val.business]
                /\ employees' = employees @@ (r.val.address :> r.val.employee)
                /\ lamports' = [lamports EXCEPT !["employer"] = @ - EntryRent]
                /\ ret' = [op |-> "payroll::add_employee", err |-> "Ok",
                           address |-> r.val.address]
           ELSE /\ UNCHANGED <<businesses, employees, lamports>>
                /\ ret' = [op |-> "payroll::add_employee",
                           err |-> IF r.ok THEN "AccountInUse" ELSE r.err]
    /\ UNCHANGED <<prog, now, input, jar, applied, mempool, vaultVars, tee>>

\* ------------------------------------------------------------------------
\* lib.rs (payroll): delegate_to_tee, mark_delegated, accrue, undelegate
\* ------------------------------------------------------------------------

delegate_to_tee(employee) ==
    IF ~employee.is_active THEN Err("InactiveEmployee")
    ELSE IF employee.is_delegated THEN Err("AlreadyDelegated")
    ELSE Ok(employee)

DelegateToTee(e) ==
    /\ prog = "payroll"
    /\ e \in DOMAIN employees
    /\ LET r == delegate_to_tee(employees[e])
           call == [op |-> "delegate_to_tee", employee |-> e]
       IN  IF r.ok
           THEN /\ tee' = tee \cup {e}
                /\ ret' = call @@ [err |-> "Ok", cpis |-> <<"delegate">>]
           ELSE /\ UNCHANGED tee
                /\ ret' = call @@ [err |-> r.err]
    /\ UNCHANGED <<prog, now, input, jar, lamports, applied, mempool, vaultVars,
                   businesses, employees>>

MarkDelegated(e) ==
    /\ prog = "payroll"
    /\ e \in DOMAIN employees
    /\ employees' = [employees EXCEPT ![e].is_delegated = TRUE]
    /\ ret' = [op |-> "mark_delegated", employee |-> e, err |-> "Ok"]
    /\ UNCHANGED <<prog, now, input, jar, lamports, applied, mempool, vaultVars, businesses, tee>>

accrue(employee, current_time) ==
    LET elapsed == checked_sub_i64(current_time, employee.last_accrual_time)
    IN  IF ~elapsed.ok THEN Err("InvalidTimestamp")
        ELSE IF elapsed.val <= 0 THEN Ok(employee)
        ELSE Ok([employee EXCEPT !.last_accrual_time = current_time])

Accrue(e) ==
    /\ prog \in {"payroll", "regressed"}
    /\ e \in DOMAIN employees
    /\ LET r == accrue(employees[e], now)
       IN  /\ employees' = IF r.ok THEN [employees EXCEPT ![e] = r.val] ELSE employees
           /\ ret' = [op |-> "accrue", employee |-> e,
                      err |-> IF r.ok THEN "Ok" ELSE r.err]
    /\ UNCHANGED <<prog, now, input, jar, lamports, applied, mempool, vaultVars, businesses, tee>>

undelegate(employee) ==
    IF ~employee.is_delegated THEN Err("NotDelegated") ELSE Ok(employee)

Undelegate(e) ==
    /\ prog = "payroll"
    /\ e \in DOMAIN employees
    /\ LET r == undelegate(employees[e])
           call == [op |-> "undelegate", employee |-> e]
       IN  IF r.ok
           THEN /\ tee' = tee \ {e}
                /\ ret' = call @@ [err |-> "Ok", cpis |-> <<"commit_and_undelegate">>]
           ELSE /\ UNCHANGED tee
                /\ ret' = call @@ [err |-> r.err]
    /\ UNCHANGED <<prog, now, input, jar, lamports, applied, mempool, vaultVars,
                   businesses, employees>>

\* ------------------------------------------------------------------------
\* lib.rs (payroll): auto_payment, manual_withdraw, simple_withdraw.
\* An instruction's result lists the cross-program calls it made, in order.
\* ------------------------------------------------------------------------

auto_payment(employee) ==
    IF ~employee.is_active THEN Err("InactiveEmployee")
    ELSE Ok(<<"commit_and_undelegate", "transfer">>)

manual_withdraw(employee) ==
    IF ~employee.is_active THEN Err("InactiveEmployee")
    ELSE IF employee.is_delegated THEN Ok(<<"commit_and_undelegate", "transfer">>)
    ELSE Ok(<<"transfer">>)

simple_withdraw(employee, encrypted_amount) ==
    IF ~employee.is_active THEN Err("InactiveEmployee")
    ELSE IF encrypted_amount = <<>> THEN Err("InvalidAmount")
    ELSE Ok(<<"transfer">>)

\* The PaymentProcessed record the three withdrawals emit.
emit_PaymentProcessed(employee, timestamp, is_auto_payment) ==
    [name |-> "PaymentProcessed", employee_index |-> employee.employee_index,
     timestamp |-> timestamp, auto_payment |-> is_auto_payment]

\* As Withdraw, with the paid balance cleared and the delegation flag reset.
Withdraw_settling(op, e, r, amount) ==
    /\ prog = "payroll"
    /\ e \in DOMAIN employees
    /\ businesses[employees[e].business].vault # "default"
    /\ LET call == [op |-> op, employee |-> e]
       IN  IF r.ok
           THEN /\ employees' = [employees EXCEPT
                                     ![e].encrypted_accrued = EncryptedHandle_default,
                                     ![e].is_delegated = FALSE]
                /\ tee' = IF \E i \in 1..Len(r.val) : r.val[i] = "commit_and_undelegate"
                          THEN tee \ {e} ELSE tee
                /\ ret' = call @@
                       [err |-> "Ok", cpis |-> r.val, amount |-> amount,
                        event |-> emit_PaymentProcessed(employees[e], now,
                                                        op = "auto_payment")]
           ELSE /\ UNCHANGED <<tee, employees>>
                /\ ret' = call @@ [err |-> r.err]
    /\ UNCHANGED <<prog, now, input, jar, lamports, applied, mempool, vaultVars,
                   businesses>>

\* The effect of a withdrawal: the calls reach the delegation program and the
\* token program; the employee account itself is not written.
Withdraw(op, e, r, amount) ==
    /\ prog = "payroll"
    /\ e \in DOMAIN employees
    /\ businesses[employees[e].business].vault # "default"
    /\ LET call == [op |-> op, employee |-> e]
       IN  IF r.ok
           THEN /\ tee' = IF \E i \in 1..Len(r.val) : r.val[i] = "commit_and_undelegate"
                          THEN tee \ {e} ELSE tee
                /\ ret' = call @@
                       [err |-> "Ok", cpis |-> r.val, amount |-> amount,
                        event |-> emit_PaymentProcessed(employees[e], now,
                                                        op = "auto_payment")]
           ELSE /\ UNCHANGED tee
                /\ ret' = call @@ [err |-> r.err]
    /\ UNCHANGED <<prog, now, input, jar, lamports, applied, mempool, vaultVars,
                   businesses, employees>>

AutoPayment(e) ==
    /\ e \in DOMAIN employees
    /\ Withdraw("auto_payment", e, auto_payment(employees[e]),
                employees[e].encrypted_accrued.handle)

ManualWithdraw(e) ==
    /\ e \in DOMAIN employees
    /\ Withdraw("manual_withdraw", e, manual_withdraw(employees[e]),
                employees[e].encrypted_accrued.handle)

SimpleWithdraw(e, encrypted_amount) ==
    /\ e \in DOMAIN employees
    /\ Withdraw("simple_withdraw", e, simple_withdraw(employees[e], encrypted_amount),
                encrypted_amount)

PayrollNext ==
    \/ \E o \in Owners : PayrollRegisterBusiness(o)
    \/ \E b \in DOMAIN businesses : PayrollInitVault(b)
    \/ \E b \in DOMAIN businesses, c \in Ciphertexts : PayrollDeposit(b, c)
    \/ \E b \in DOMAIN businesses, c1, c2 \in Ciphertexts : PayrollAddEmployee(b, c1, c2)
    \/ \E e \in DOMAIN employees : DelegateToTee(e)
    \/ \E e \in DOMAIN employees : MarkDelegated(e)
    \/ \E e \in DOMAIN employees : Accrue(e)
    \/ \E e \in DOMAIN employees : Undelegate(e)
    \/ \E e \in DOMAIN employees : AutoPayment(e)
    \/ \E e \in DOMAIN employees : ManualWithdraw(e)
    \/ \E e \in DOMAIN employees, c \in Ciphertexts : SimpleWithdraw(e, c)

JarNext ==
    \/ \E s \in SalaryInputs : BakePayroll(s)
    \/ \E s \in SalaryInputs : UpdateSalary(s)
    \/ \E a \in DepositInputs : DepositDough(a)
    \/ GetDough
    \/ \E s \in ElapsedInputs : QueueGetDoughMpc(s)
    \/ \E o \in SignedOutputs, c \in Computations, m \in MagicPrograms :
           FinalizeGetDoughFromMpcCallback(o, c, m)
    \/ CloseJar

\* ------------------------------------------------------------------------
\* Specification
\* ------------------------------------------------------------------------

vars == <<prog, now, ret, input, jar, lamports, applied, mempool, vaultVars, payVars>>

NoInput == [plaintext |-> 0, scalar |-> 0]

\* Payroll jars as queue_get_dough_mpc may be handed them: with the 8-byte
\* ciphertext bake_payroll and update_salary store, and with a 32-byte one.
QueueJars ==
    {[exists |-> TRUE, encrypted_salary_per_second |-> c, last_withdraw |-> 0,
      total_accrued |-> 0, is_active |-> a] :
        c \in {to_le_bytes(2), to_le_bytes_n(2, ENCRYPTED_INPUT_SIZE)}, a \in BOOLEAN}

InitQueue ==
    /\ prog = "queue"
    /\ input = NoInput
    /\ jar \in QueueJars
    /\ lamports = InitLamports

InitPrivacy ==
    /\ prog = "privacy"
    /\ jar = NoJar
    /\ input \in [plaintext : Plaintexts, scalar : Scalars]
    /\ lamports = InitLamports

InitJar ==
    /\ prog = "jar"
    /\ input = NoInput
    /\ jar = NoJar
    /\ lamports = InitLamports

InitVault ==
    /\ prog = "vault"
    /\ input = NoInput
    /\ jar = NoJar
    /\ lamports = [InitLamports EXCEPT !["employer"] = OwnerFunds]

InitPayroll ==
    /\ prog = "payroll"
    /\ input = NoInput
    /\ jar = NoJar
    /\ lamports = [InitLamports EXCEPT !["employer"] = OwnerFunds]

\* No account of the vault or of the payroll program exists yet.
InitEmpty ==
    /\ now = 0
    /\ master_vault = NoVault
    /\ business_entries = <<>>
    /\ employee_entries = <<>>
    /\ businesses = <<>>
    /\ employees = <<>>

\* The clock went back: a jar, an employee entry and a payroll employee that
\* were stamped at StampTime are read under a clock showing an earlier time.
StampTime == 2 * MIN_WITHDRAW_INTERVAL

StampedVault ==
    [NoVault EXCEPT !.exists = TRUE, !.is_active = TRUE,
                    !.total_balance = 2 * MIN_WITHDRAW_INTERVAL]

StampedBusinessEntry == register_business(StampedVault, <<1>>).val

StampedEmployeeEntry ==
    add_employee(StampedBusinessEntry.address, StampedBusinessEntry.entry,
                 <<1>>, <<1>>, StampTime).val

StampedBusiness ==
    [owner |-> "employer", vault |-> VaultSeeds(BusinessSeeds("employer")),
     next_employee_index |-> 0, is_active |-> TRUE]

StampedEmployee ==
    payroll_add_employee(BusinessSeeds("employer"), StampedBusiness,
                         <<1>>, <<1>>, StampTime).val

InitRegressed ==
    /\ prog = "regressed"
    /\ input = NoInput
    /\ now \in TimePoints \ {StampTime}
    /\ jar = [bake_payroll(2, StampTime).val EXCEPT
                 !.total_accrued = 2 * MIN_WITHDRAW_INTERVAL]
    /\ master_vault = StampedBusinessEntry.vault
    /\ business_entries = (StampedBusinessEntry.address :> StampedEmployeeEntry.business)
    /\ employee_entries = (StampedEmployeeEntry.address :> StampedEmployeeEntry.employee)
    /\ businesses = (BusinessSeeds("employer") :> StampedEmployee.business)
    /\ employees = (StampedEmployee.address :> StampedEmployee.employee)
    /\ lamports = [InitLamports EXCEPT
                      !["jar"] = JarRent + 2 * MIN_WITHDRAW_INTERVAL,
                      !["master_vault"] = VaultRent + 2 * MIN_WITHDRAW_INTERVAL]

Init ==
    /\ ret = NoCall
    /\ applied = {}
    /\ mempool = <<>>
    /\ tee = {}
    /\ \/ InitEmpty /\ InitPrivacy
       \/ InitEmpty /\ InitJar
       \/ InitEmpty /\ InitQueue
       \/ InitEmpty /\ InitVault
       \/ InitEmpty /\ InitPayroll
       \/ InitRegressed

Next ==
    \/ PrivacyNext
    \/ JarNext
    \/ VaultNext
    \/ PayrollNext
    \/ \E t \in TimePoints : Tick(t)

Spec == Init /\ [][Next]_vars

\* ------------------------------------------------------------------------
\* Properties
\* ------------------------------------------------------------------------

MultiplyOps ==
    {"multiply_by_scalar", "calculate_accrued", "arcium::calculate_accrued_mpc",
     "inco::calculate_accrued_mpc"}

\* The exact product does not exceed u64::MAX.
Fits(a, b) == a = 0 \/ b <= U64_MAX \div a

\* C1: encrypting a rate, multiplying the ciphertext by a scalar and decrypting
\* yields rate * scalar whenever the product fits in u64, for the EncryptedU64,
\* the Arcium and the Inco variants.
C1_ScalarMultiplyExact ==
    (prog = "privacy" /\ ret.op \in MultiplyOps
        /\ Fits(input.plaintext, input.scalar))
    => (ret.err = "Ok" /\ ret.plain = Ok(input.plaintext * input.scalar))

C1_Witness ==
    /\ prog = "privacy"
    /\ ret.op = "inco::calculate_accrued_mpc"
    /\ input = [plaintext |-> 1000, scalar |-> 3600]
    /\ ret.err = "Ok"
    /\ ret.plain = Ok(3600000)

\* C2: when the product would exceed u64::MAX the multiplication fails with
\* an overflow error and yields no value; it never wraps.
C2_ScalarMultiplyOverflowFails ==
    (prog = "privacy" /\ ret.op \in MultiplyOps
        /\ ~Fits(input.plaintext, input.scalar))
    => (ret.err \in {"ArithmeticOverflow", "IncoError::Overflow"}
        /\ "value" \notin DOMAIN ret)

C2_Witness ==
    /\ prog = "privacy"
    /\ ret.op = "multiply_by_scalar"
    /\ input = [plaintext |-> U64_MAX \div 2, scalar |-> 10]
    /\ ret.err = "ArithmeticOverflow"

\* The salary rate a jar stores, and what it has accrued by `now`.
JarSalary == from_le_bytes(jar.encrypted_salary_per_second)

JarElapsed == now - jar.last_withdraw

JarAccruedFits == JarElapsed >= 0 /\ Fits(JarSalary, JarElapsed)

\* The step is a call of request_withdrawal whose accounts passed validation.
RequestWithdrawalCalled ==
    ret'.op = "request_withdrawal" /\ ret'.err # "ConstraintSeeds"

EntryElapsed == now - employee_entries[ret'.employee].last_action

GetDoughTooSoonRejected ==
    (ret'.op = "get_dough" /\ JarElapsed < 60)
    => (ret'.err = "WithdrawTooSoon" /\ UNCHANGED <<jar, lamports>>)

GetDoughSucceeds ==
    (ret'.op = "get_dough" /\ JarElapsed >= 60 /\ JarAccruedFits
        /\ JarSalary * JarElapsed > 0
        /\ JarSalary * JarElapsed <= jar.total_accrued)
    => /\ ret'.err = "Ok"
       /\ jar'.last_withdraw = now
       /\ jar'.total_accrued = jar.total_accrued - JarSalary * JarElapsed
       /\ lamports'["employee"] = lamports["employee"] + JarSalary * JarElapsed

RequestWithdrawalSucceeds ==
    (RequestWithdrawalCalled /\ EntryElapsed >= 60
        /\ ret'.amount > 0 /\ ret'.amount <= master_vault.total_balance)
    => /\ ret'.err = "Ok"
       /\ employee_entries'[ret'.employee].last_action = now

FinalizeCalled == ret'.op = "finalize_get_dough_from_mpc_callback"

\* C4: a computation result is applied at most once: delivering a result that
\* the callback has already applied is rejected and pays nothing.
C4_AppliedAtMostOnce ==
    [][(FinalizeCalled /\ ret'.output \in applied)
       => (ret'.err # "Ok" /\ UNCHANGED <<jar, lamports>>)]_vars

\* The output carries the cluster's signature for the computation account
\* the callback was given.
Genuine(output, computation_account) ==
    output.signer = "cluster" /\ output.computation = computation_account

\* C5: a result whose signature does not verify against the cluster for the
\* computation account is rejected before decryption, mutation or transfer.
C5_BadSignatureRejected ==
    [][(FinalizeCalled /\ ~Genuine(ret'.output, ret'.computation_account))
       => (ret'.err = "ComputationFailed" /\ UNCHANGED <<jar, lamports>>)]_vars

C5_Witness ==
    /\ prog = "jar"
    /\ ret.op = "finalize_get_dough_from_mpc_callback"
    /\ ret.output.signer = "forger"
    /\ ret.err = "ComputationFailed"
    /\ jar.exists
    /\ from_le_bytes(SubSeq(ret.output.bytes, 1, 8)) <= jar.total_accrued

\* C6: while is_delegated is true a direct accrue is rejected with
\* AlreadyDelegated or InvalidState and leaves the employee unchanged.
C6_AccrueRejectedWhileDelegated ==
    [][(ret'.op = "accrue" /\ employees[ret'.employee].is_delegated)
       => (ret'.err \in {"AlreadyDelegated", "InvalidState"}
           /\ UNCHANGED employees)]_vars

\* The amount a computation output carries.
OutputAmount(output) == from_le_bytes(SubSeq(output.bytes, 1, 8))

GetDoughInsufficient ==
    (ret'.op = "get_dough" /\ JarElapsed >= 60 /\ JarAccruedFits
        /\ JarSalary * JarElapsed > jar.total_accrued)
    => (ret'.err = "InsufficientFunds" /\ UNCHANGED <<jar, lamports>>)

FinalizeInsufficient ==
    (FinalizeCalled /\ Genuine(ret'.output, ret'.computation_account)
        /\ OutputAmount(ret'.output) > jar.total_accrued)
    => (ret'.err = "InsufficientFunds" /\ UNCHANGED <<jar, lamports>>)

EntriesOf(b) == {e \in DOMAIN employee_entries : employee_entries[e].business_entry = b}

EmployeesOf(b) == {e \in DOMAIN employees : employees[e].business = b}

SeedIndices == {0, 1, 2, 255, 256, 65536, U64_MAX}

BagelParents == {BusinessEntrySeeds(MasterVaultKey, i) : i \in {0, 1, 256}}

PayrollParents == {BusinessSeeds(o) : o \in Owners}

\* Two different (parent, index) pairs never derive the same seeds.
SeedsInjective ==
    /\ \A p1, p2 \in BagelParents : \A i1, i2 \in SeedIndices :
           EmployeeEntrySeeds(p1, i1) = EmployeeEntrySeeds(p2, i2)
           => (p1 = p2 /\ i1 = i2)
    /\ \A p1, p2 \in PayrollParents : \A i1, i2 \in SeedIndices :
           EmployeeSeeds(p1, i1) = EmployeeSeeds(p2, i2) => (p1 = p2 /\ i1 = i2)

\* C9: every employee entry sits at the address derived from its parent and
\* the index it stores, which is the address add_employee created it at; and
\* two different (parent, index) pairs never derive the same seeds.
C9_AddressesInjective ==
    /\ \A a \in DOMAIN employee_entries :
           a = EmployeeEntrySeeds(employee_entries[a].business_entry,
                                  employee_entries[a].employee_index)
    /\ \A a \in DOMAIN business_entries :
           a = BusinessEntrySeeds(business_entries[a].master_vault,
                                  business_entries[a].entry_index)
    /\ \A a \in DOMAIN employees :
           a = EmployeeSeeds(employees[a].business, employees[a].employee_index)
    /\ SeedsInjective

C9_Witness ==
    /\ prog = "vault"
    /\ ret.op = "request_withdrawal"
    /\ ret.err = "Ok"
    /\ employee_entries[ret.employee].employee_index = 1
    /\ Cardinality(DOMAIN employee_entries) = 2

\* C10: a successful manual_withdraw, auto_payment or simple_withdraw for an
\* employee whose is_delegated is true commits and undelegates before it
\* transfers.
C10_CommitBeforeTransfer ==
    [][(ret'.op \in {"manual_withdraw", "auto_payment", "simple_withdraw"}
        /\ ret'.err = "Ok" /\ employees[ret'.employee].is_delegated)
       => ret'.cpis = <<"commit_and_undelegate", "transfer">>]_vars

\* C11: whenever an employee account is held by the TEE execution context its
\* is_delegated is true: a successful delegate_to_tee leaves the flag set.
C11_DelegatedFlagSet ==
    \A e \in tee : employees[e].is_delegated

\* C12: a successful undelegate leaves is_delegated false, so that a following
\* delegate_to_tee on the same active employee can succeed.
C12_UndelegateClearsFlag ==
    [][(ret'.op = "undelegate" /\ ret'.err = "Ok")
       => ~employees'[ret'.employee].is_delegated]_vars

\* C13: delegate_to_tee fails with AlreadyDelegated for an employee handed to
\* the TEE by an earlier delegate_to_tee and not undelegated since, with
\* InactiveEmployee for an inactive one, and a failed call changes no state.
C13_DelegateRejected ==
    [][(ret'.op = "delegate_to_tee")
       => /\ ret'.employee \in tee => ret'.err = "AlreadyDelegated"
          /\ ~employees[ret'.employee].is_active => ret'.err = "InactiveEmployee"
          /\ ret'.err # "Ok" => UNCHANGED <<employees, businesses, tee>>]_vars

\* C14: undelegate on an employee the TEE does not currently hold fails with
\* NotDelegated, performs no commit and changes no state.
C14_UndelegateRejected ==
    [][(ret'.op = "undelegate" /\ ret'.employee \notin tee)
       => /\ ret'.err = "NotDelegated"
          /\ "cpis" \notin DOMAIN ret'
          /\ UNCHANGED <<employees, businesses, tee>>]_vars

\* The ciphertext an employer registers for a wallet: <<1>> is that of the
\* employee's wallet, no registered ciphertext is the stranger's.
EncryptedIdOf(wallet) == IF wallet = "withdrawer" THEN <<1>> ELSE <<2>>

\* C15: a withdrawal signed by a wallet other than the one recorded on the
\* employee entry fails with IdentityVerificationFailed and transfers nothing.
C15_IdentityVerified ==
    [][(RequestWithdrawalCalled
        /\ EncryptedIdOf(ret'.withdrawer)
               # employee_entries[ret'.employee].encrypted_employee_id)
       => (ret'.err = "IdentityVerificationFailed" /\ UNCHANGED lamports)]_vars

C18_SignatureErrorDistinct ==
    [][(FinalizeCalled /\ ~Genuine(ret'.output, ret'.computation_account))
       => ret'.err # "ComputationFailed"]_vars

Settled == ret'.op \in {"get_dough", "finalize_get_dough_from_mpc_callback"}

\* The amount the settlement is to pay: rate * elapsed in get_dough, the
\* amount the verified output carries in the callback.
SettledAmount ==
    IF ret'.op = "get_dough"
    THEN IF JarAccruedFits THEN JarSalary * JarElapsed ELSE 0
    ELSE OutputAmount(ret'.output)

\* C19: a successful settlement paying a leaves total_accrued reduced by a and
\* last_withdraw = now, moves exactly a lamports from the jar to the employee
\* and changes no other jar field and no other balance.
C19_SettlementExact ==
    [][(Settled /\ ret'.err = "Ok")
       => /\ SettledAmount > 0
          /\ jar' = [jar EXCEPT !.total_accrued = @ - SettledAmount,
                                !.last_withdraw = now]
          /\ lamports' = [lamports EXCEPT !["jar"] = @ - SettledAmount,
                                          !["employee"] = @ + SettledAmount]]_vars

C19_Witness ==
    /\ prog = "jar"
    /\ ret.op = "get_dough"
    /\ ret.err = "Ok"
    /\ now = 60
    /\ jar.last_withdraw = 60
    /\ jar.total_accrued = 80
    /\ lamports["employee"] = 120

\* C20: a successful accrue with elapsed = now - last_accrual_time > 0 leaves
\* encrypted_accrued the encryption of accrued + rate * elapsed and
\* last_accrual_time = now.  A handle stands for one value and the all-zero
\* handle for zero, so with a rate handle other than the all-zero one the new
\* balance is a different handle.
C20_AccrueAddsDelta ==
    [][(/\ ret'.op = "accrue"
        /\ ret'.err = "Ok"
        /\ now > employees[ret'.employee].last_accrual_time
        /\ employees[ret'.employee].encrypted_salary_rate # EncryptedHandle_default)
       => /\ employees'[ret'.employee].encrypted_accrued
                 # employees[ret'.employee].encrypted_accrued
          /\ employees'[ret'.employee].last_accrual_time = now]_vars

\* The time the account of the call was last stamped with.
LastStamp ==
    IF ret'.op = "get_dough" THEN jar.last_withdraw
    ELSE IF ret'.op = "accrue" THEN employees[ret'.employee].last_accrual_time
    ELSE employee_entries[ret'.employee].last_action

\* The call computes an elapsed time: request_withdrawal does so once the
\* accounts validated, the amount is positive and the employee is active.
ComputesElapsed ==
    \/ ret'.op \in {"get_dough", "accrue"}
    \/ /\ RequestWithdrawalCalled
       /\ ret'.amount > 0
       /\ employee_entries[ret'.employee].is_active

\* C21: accrue, get_dough and request_withdrawal called with now earlier than
\* the account's last accrual/withdraw time fail with InvalidTimestamp and
\* change no state.
C21_RegressionRejected ==
    [][(ComputesElapsed /\ now < LastStamp)
       => /\ ret'.err = "InvalidTimestamp"
          /\ UNCHANGED <<jar, lamports, master_vault, employee_entries, employees>>]_vars

PayrollWithdrawals == {"manual_withdraw", "auto_payment", "simple_withdraw"}

\* C22: pacing holds on every settlement path: a settlement through the MPC
\* callback, or through payroll manual_withdraw, auto_payment or
\* simple_withdraw, does not go through when fewer than 60 seconds have
\* passed since the account's last settlement time.
C22_PacingOnEveryPath ==
    [][/\ (FinalizeCalled /\ JarElapsed < MIN_WITHDRAW_INTERVAL) => ret'.err # "Ok"
       /\ (/\ ret'.op \in PayrollWithdrawals
           /\ now - employees[ret'.employee].last_accrual_time < MIN_WITHDRAW_INTERVAL)
          => ret'.err # "Ok"]_vars

Decryptions(calls) == Cardinality({i \in 1..Len(calls) : calls[i] = "decrypt"})

\* C24: within one settlement a confidential value is decrypted exactly once,
\* at the final decrypt-for-transfer step; the scalar multiplication that
\* produces the accrued amount does not decrypt its operand.
C24_DecryptedOnce ==
    [][(ret'.op = "get_dough" /\ ret'.err = "Ok")
       => /\ Decryptions(ret'.calls) = 1
          /\ ret'.calls[Len(ret'.calls)] = "decrypt"]_vars

\* Amounts two runs may differ in.
AnyAmount == VaultWithdrawals \cup MpcAmounts

\* C25: the settlement record a successful withdrawal emits (DoughDelivered,
\* WithdrawalProcessed, PaymentProcessed) omits the amount: it is the record
\* the same call emits for any other settled amount.
C25_RecordOmitsAmount ==
    [][(ret'.err = "Ok" /\ (Settled \/ ret'.op = "request_withdrawal"
                                    \/ ret'.op \in PayrollWithdrawals))
       => /\ "amount" \notin DOMAIN ret'.event
          /\ Settled
             => \A a \in AnyAmount :
                    ret'.event = emit_DoughDelivered("employee", "jar", a, now)
          /\ ret'.op = "request_withdrawal"
             => \E s \in BOOLEAN : \A a \in AnyAmount :
                    ret'.event = emit_WithdrawalProcessed(
                        business_entries[employee_entries[ret'.employee].business_entry],
                        employee_entries[ret'.employee], a, now, s)
          /\ ret'.op \in PayrollWithdrawals
             => ret'.event = emit_PaymentProcessed(employees[ret'.employee], now,
                                                   ret'.op = "auto_payment")]_vars

C25_Witness ==
    /\ ret.op = "request_withdrawal"
    /\ ret.err = "Ok"
    /\ ret.amount = 100
    /\ lamports[ret.withdrawer] = 100
    /\ ret.event.name = "WithdrawalProcessed"
    /\ ret.event.timestamp = now

C27_NeverRemoved ==
    [][/\ jar.exists => jar'.exists
       /\ DOMAIN employee_entries \subseteq DOMAIN employee_entries'
       /\ DOMAIN employees \subseteq DOMAIN employees'
       /\ ret'.op = "close_jar" /\ ret'.err = "Ok"
          => jar' = [jar EXCEPT !.is_active = FALSE]]_vars

\* C28: encrypt followed by decrypt is the identity, for every u64 amount of
\* EncryptedU64 and of both ConfidentialBalance types and for every u128
\* value of Euint128.
C28_EncryptDecryptIdentity ==
    ret.op = "encrypt_decrypt"
    => /\ ret.encrypted_u64 = Ok(input.plaintext)
       /\ ret.arcium = Ok(input.plaintext)
       /\ ret.inco = Ok(input.plaintext)
       /\ ret.euint128 = Ok(input.plaintext)
       /\ ret.euint128_wide = Ok(input.plaintext + U64_MAX + 1)

C28_Witness ==
    /\ ret.op = "encrypt_decrypt"
    /\ input.plaintext = U64_MAX
    /\ ret.inco.val = U64_MAX
    /\ ret.euint128_wide.val > U64_MAX

\* C29: after a successful ConfidentialBalance add, decrypt returns the
\* previous plaintext plus delta; when that sum exceeds u64::MAX the add
\* fails with an overflow error and the balance is unchanged.
C29_AddHomomorphic ==
    ret.op \in {"arcium::add", "inco::add"}
    => IF input.plaintext + input.scalar <= U64_MAX
       THEN ret.err = "Ok" /\ ret.plain = Ok(input.plaintext + input.scalar)
       ELSE /\ ret.err \in {"ArithmeticOverflow", "IncoError::Overflow"}
            /\ ret.plain = Ok(input.plaintext)
            /\ ret.balance = IF ret.op = "arcium::add" THEN Arcium_new(input.plaintext)
                             ELSE Inco_new(input.plaintext)

C29_Witness ==
    /\ ret.op = "inco::add"
    /\ input.plaintext = 1000000
    /\ input.scalar = 500000
    /\ ret.err = "Ok"
    /\ ret.plain = Ok(1500000)

\* C30: ConfidentialBalance sub fails with Underflow whenever delta is greater
\* than the current plaintext balance and then leaves the balance unchanged;
\* otherwise decrypt afterwards returns the previous plaintext minus delta.
C30_SubUnderflow ==
    ret.op = "inco::sub"
    => IF input.scalar > input.plaintext
       THEN /\ ret.err = "IncoError::Underflow"
            /\ ret.balance = Inco_new(input.plaintext)
            /\ ret.plain = Ok(input.plaintext)
       ELSE ret.err = "Ok" /\ ret.plain = Ok(input.plaintext - input.scalar)

C30_Witness ==
    /\ ret.op = "inco::sub"
    /\ input.plaintext = 1000
    /\ input.scalar = 3600
    /\ ret.err = "IncoError::Underflow"
    /\ ret.plain = Ok(1000)

SalaryCalls == {"bake_payroll", "update_salary"}

\* C32: after any bake_payroll and update_salary calls the salary per second
\* a jar stores is at most MAX_SALARY_PER_SECOND; a call with a larger value
\* fails with SalaryTooHigh and leaves the jar unchanged.
C32_SalaryCapped ==
    [][/\ jar'.exists
          => from_le_bytes(jar'.encrypted_salary_per_second) <= MAX_SALARY_PER_SECOND
       /\ (ret'.op \in SalaryCalls /\ ret'.salary_per_second > MAX_SALARY_PER_SECOND)
          => ret'.err = "SalaryTooHigh" /\ UNCHANGED <<jar, lamports>>]_vars

C32_Witness ==
    /\ ret.op = "update_salary"
    /\ ret.salary_per_second = MAX_SALARY_PER_SECOND + 1
    /\ ret.err = "SalaryTooHigh"
    /\ jar.exists
    /\ JarSalary = MAX_SALARY_PER_SECOND

\* C33: migrate_vault applied to a vault that already has the new layout
\* returns Ok and changes nothing, so a configured confidential_mint and
\* use_confidential_tokens flag survive it.
C33_MigrateIdempotent ==
    [][(ret'.op = "migrate_vault" /\ ret'.err = "Ok")
       => UNCHANGED <<master_vault, lamports>>]_vars

\* C34: deposit_dough(amount) with amount > 0 splits the deposit into a yield
\* part floor(amount * 90 / 100) and a liquid part amount - yield part, which
\* sum to amount; exactly amount lamports move from the employer to the jar
\* and total_accrued grows by exactly amount, without wrapping; amount = 0
\* fails with InvalidAmount.
C34_DepositSplit ==
    [][ret'.op = "deposit_dough"
       => /\ ret'.amount = 0 => ret'.err = "InvalidAmount"
          /\ ret'.err = "Ok"
             => /\ ret'.amount > 0
                /\ 100 * ret'.yield_amount <= 90 * ret'.amount
                /\ 90 * ret'.amount < 100 * (ret'.yield_amount + 1)
                /\ ret'.liquid_amount = ret'.amount - ret'.yield_amount
                /\ ret'.yield_amount + ret'.liquid_amount = ret'.amount
                /\ lamports' = [lamports EXCEPT !["employer"] = @ - ret'.amount,
                                                !["jar"] = @ + ret'.amount]
                /\ jar'.total_accrued = jar.total_accrued + ret'.amount
                /\ jar'.total_accrued <= U64_MAX]_vars

C34_Witness ==
    /\ ret.op = "deposit_dough"
    /\ ret.err = "Ok"
    /\ ret.amount = 105
    /\ ret.yield_amount = 94
    /\ ret.liquid_amount = 11
    /\ jar.total_accrued = 105
    /\ lamports["jar"] = JarRent + 105

\* C35: for an active payroll jar whose encrypted salary was stored by
\* bake_payroll or update_salary, queue_get_dough_mpc submits the computation
\* rather than failing.
C35_StoredSalaryQueues ==
    [][(ret'.op = "queue_get_dough_mpc" /\ prog = "jar" /\ jar.is_active)
       => ret'.err = "Ok" /\ Len(mempool') = Len(mempool) + 1]_vars

\* C36: an employee's is_delegated becomes true only by a successful
\* delegate_to_tee on that employee; no other instruction sets the flag.
C36_FlagSetOnlyByDelegate ==
    [][\A e \in DOMAIN employees' :
          (employees'[e].is_delegated
              /\ ~(e \in DOMAIN employees /\ employees[e].is_delegated))
          => /\ ret'.op = "delegate_to_tee"
             /\ ret'.err = "Ok"
             /\ ret'.employee = e]_vars

\* C37: in SOL mode total_balance is the sum of the successful deposits minus
\* the sum of the successful withdrawals: a successful deposit adds its
\* amount, a successful request_withdrawal subtracts its amount, nothing else
\* changes it; it never underflows or wraps, and request_withdrawal never
\* succeeds with amount > total_balance or leaving the vault below its rent.
C37_VaultLedger ==
    [][/\ (ret'.op = "deposit" /\ ret'.err = "Ok" /\ ~ConfidentialMode(master_vault))
          => master_vault'.total_balance = master_vault.total_balance + ret'.amount
       /\ (ret'.op = "request_withdrawal" /\ ret'.err = "Ok")
          => /\ ret'.amount <= master_vault.total_balance
             /\ lamports["master_vault"] - ret'.amount >= VaultRent
             /\ ~ConfidentialMode(master_vault)
                => /\ master_vault'.total_balance
                          = master_vault.total_balance - ret'.amount
                   /\ lamports'["master_vault"] = lamports["master_vault"] - ret'.amount
       /\ (ret'.err # "Ok" \/ ret'.op \notin {"deposit", "request_withdrawal"})
          => master_vault'.total_balance = master_vault.total_balance
       /\ master_vault'.total_balance \in 0..U64_MAX]_vars

C37_Witness ==
    /\ ret.op = "request_withdrawal"
    /\ ret.err = "Ok"
    /\ ret.amount = 100
    /\ ~ConfidentialMode(master_vault)
    /\ master_vault.total_balance = 0
    /\ lamports["master_vault"] = VaultRent

JarSurplus == lamports["jar"] - jar.total_accrued

\* C38: the difference between the jar account's lamports and total_accrued is
\* the same after every successful deposit_dough, get_dough and MPC-callback
\* settlement as it was at creation, so a payout never takes the lamports
\* below the initial (rent) balance and total_accrued never exceeds them.
C38_SurplusConstant ==
    [][/\ (ret'.err = "Ok" /\ (Settled \/ ret'.op = "deposit_dough"))
          => /\ JarSurplus' = JarSurplus
             /\ jar'.total_accrued <= lamports'["jar"]
       /\ (prog = "jar" /\ jar'.exists)
          => /\ JarSurplus' = JarRent
             /\ lamports'["jar"] >= JarRent]_vars

C38_Witness ==
    /\ prog = "jar"
    /\ ret.op = "finalize_get_dough_from_mpc_callback"
    /\ ret.err = "Ok"
    /\ jar.total_accrued > 0
    /\ lamports["employee"] > 0
    /\ JarSurplus = JarRent

\* C39: a successful update_salary changes only encrypted_salary_per_second:
\* last_withdraw, total_accrued and every balance stay as they were.  A
\* successful get_dough pays the rate the jar stores at the call multiplied
\* by the whole time since last_withdraw, so the time before an update is
\* paid at the new rate.
C39_UpdateSettlesNothing ==
    [][/\ (ret'.op = "update_salary" /\ ret'.err = "Ok")
          => /\ jar' = [jar EXCEPT !.encrypted_salary_per_second =
                                       to_le_bytes(ret'.salary_per_second)]
             /\ jar'.last_withdraw = jar.last_withdraw
             /\ jar'.total_accrued = jar.total_accrued
             /\ lamports' = lamports
       /\ (ret'.op = "get_dough" /\ ret'.err = "Ok")
          => /\ JarAccruedFits
             /\ lamports'["employee"] - lamports["employee"] = JarSalary * JarElapsed]_vars

C39_Witness ==
    /\ prog = "jar"
    /\ ret.op = "update_salary"
    /\ ret.err = "Ok"
    /\ ret.salary_per_second = 2
    /\ JarSalary = 2
    /\ JarElapsed = MIN_WITHDRAW_INTERVAL
    /\ jar.total_accrued >= JarSalary * JarElapsed

PayrollWithdrawn ==
    /\ ret'.op \in {"manual_withdraw", "auto_payment", "simple_withdraw"}
    /\ ret'.err = "Ok"

\* C40: a successful manual_withdraw, auto_payment or simple_withdraw leaves
\* the employee record's encrypted_accrued, last_accrual_time and is_delegated
\* as they were; manual_withdraw and auto_payment transfer the accrued handle,
\* so a manual_withdraw following a withdrawal transfers the same handle again.
C40_WithdrawKeepsRecord ==
    [][PayrollWithdrawn
       => /\ employees' = employees
          /\ ret'.op # "simple_withdraw"
             => ret'.amount = employees'[ret'.employee].encrypted_accrued.handle
          /\ (ret.op = "manual_withdraw" /\ ret.err = "Ok"
              /\ ret'.op = "manual_withdraw" /\ ret'.employee = ret.employee)
             => ret'.amount = ret.amount]_vars

\* A manual_withdraw of an employee no longer in the rollup whose flag is
\* still set: the withdrawal that took it out left the record as it was.
C40_Witness ==
    /\ ret.op = "manual_withdraw"
    /\ ret.err = "Ok"
    /\ ret.employee \notin tee
    /\ employees[ret.employee].is_delegated
    /\ employees[ret.employee].last_accrual_time < now
    /\ ret.amount = employees[ret.employee].encrypted_accrued.handle

====
